---- MODULE Spec2Model ----
(***************************************************************************)
(* A model of the break scheduling store of RPI-Uhr (backend/storage.py):  *)
(* the two tables of the SQLite database, the operations of BreakStore,    *)
(* and the time parsing and overlap test they rest on.                     *)
(*                                                                         *)
(* A Python string is a tuple of one-character strings, so that split(":") *)
(* and int() are computed as the code computes them; the Python value None *)
(* is the one-element tuple <<"None">>, which is no string of characters.  *)
(***************************************************************************)
EXTENDS Integers, Sequences, FiniteSets, TLC

VARIABLES
    breaks,     \* table breaks: id -> [start_time, end_time, description, is_deleted]
    revisions,  \* table break_revisions, in id order: revisions[i] has id i
    clock,      \* the database's CURRENT_TIMESTAMP, in seconds
    result,     \* what the last store call returned or raised
    lock,       \* the thread that holds self._lock, or NoThread
    pc,         \* pc[t]: where thread t is in its call
    call,       \* call[t]: the call thread t is in, or NoCall
    local,      \* local[t]: the local variables and the outcome of that call
    tx,         \* tx[t]: the tables as the uncommitted transaction of t's connection holds them
    serial,     \* the tables after the completed calls, run one after the other
    ncalls      \* the number of calls begun

storeVars == <<breaks, revisions, clock, result>>
threadVars == <<lock, pc, call, local, tx, serial, ncalls>>
vars == <<breaks, revisions, clock, result, lock, pc, call, local, tx, serial, ncalls>>

----------------------------------------------------------------------------
(* Bounds of the model *)

MaxBreaks == 2
MaxRevs == 3
MaxClock == 1
MaxCalls == 3
MaxMinute == 5
MaxFairCalls == 2

----------------------------------------------------------------------------
(* Python values *)

None == <<"None">>

Digits == <<"0", "1", "2", "3", "4", "5", "6", "7", "8", "9">>

IsDigit(c) == \E i \in 1..10 : Digits[i] = c

DigitValue(c) == (CHOOSE i \in 1..10 : Digits[i] = c) - 1

T0800 == <<"0", "8", ":", "0", "0">>
T0810 == <<"0", "8", ":", "1", "0">>
T0815 == <<"0", "8", ":", "1", "5">>
T0820 == <<"0", "8", ":", "2", "0">>
T2400 == <<"2", "4", ":", "0", "0">>
T900 == <<"9", ":", "0", "0">>
T930 == <<"9", ":", "3", "0">>
T95 == <<"9", ":", "5">>
T1000 == <<"1", "0", ":", "0", "0">>
T1030 == <<"1", "0", ":", "3", "0">>
T1260 == <<"1", "2", ":", "6", "0">>
T1300 == <<"1", "3", ":", "0", "0">>

\* str.split(":"): the positions of the separators cut the string into parts.
ColonPositions(s) == {i \in 1..Len(s) : s[i] = ":"}

\* int(s) for a string over digits and ":" : -1 stands for ValueError.
RECURSIVE ParseInt(_)
ParseInt(s) ==
    IF Len(s) = 0 THEN -1
    ELSE IF ~IsDigit(s[Len(s)]) THEN -1
    ELSE IF Len(s) = 1 THEN DigitValue(s[1])
    ELSE LET hi == ParseInt(SubSeq(s, 1, Len(s) - 1))
         IN IF hi < 0 THEN -1 ELSE hi * 10 + DigitValue(s[Len(s)])

\* The outcome of a function that raises BreakValidationError.
Invalid == -1

time_to_minutes(value) ==
    IF value = None THEN Invalid                      \* AttributeError
    ELSE IF Cardinality(ColonPositions(value)) # 1 THEN Invalid  \* unpack fails
    ELSE LET p == CHOOSE i \in ColonPositions(value) : TRUE
             h == ParseInt(SubSeq(value, 1, p - 1))
             m == ParseInt(SubSeq(value, p + 1, Len(value)))
         IN IF h < 0 \/ m < 0 THEN Invalid            \* ValueError
            ELSE IF ~(0 <= h /\ h <= 23 /\ 0 <= m /\ m <= 59) THEN Invalid
            ELSE h * 60 + m

Max(a, b) == IF a >= b THEN a ELSE b
Min(a, b) == IF a <= b THEN a ELSE b

\* The overlap test by one comparison: the second interval starts before
\* the first ends.
ranges_overlap_one_sided(start_a, end_a, start_b, end_b) ==
    start_b < end_a

\* The overlap test on closed intervals: an interval that starts at the
\* minute another one ends overlaps it.
ranges_overlap_closed(start_a, end_a, start_b, end_b) ==
    Max(start_a, start_b) <= Min(end_a, end_b)

ranges_overlap(start_a, end_a, start_b, end_b) ==
    Max(start_a, start_b) < Min(end_a, end_b)

----------------------------------------------------------------------------
(* The tables and the helpers of BreakStore *)

\* Python None where the code expects Optional[int].
NoId == -1

\* An "id" of a bootstrap entry that SQLite does not take for an INTEGER
\* PRIMARY KEY: a JSON string (datatype mismatch) or an integer of more than
\* 64 bits (OverflowError).
BadId == -2

Row(start_time, end_time, description, is_deleted) ==
    [start_time |-> start_time, end_time |-> end_time,
     description |-> description, is_deleted |-> is_deleted]

ActiveIds(brk) == {id \in DOMAIN brk : ~brk[id].is_deleted}

MaxOf(S) == CHOOSE x \in S : \A y \in S : y <= x

\* The ids of S in ascending order: the order of a table scan by rowid.
RECURSIVE Ascending(_)
Ascending(S) ==
    IF S = {} THEN <<>>
    ELSE LET lo == CHOOSE x \in S : \A y \in S : x <= y
         IN <<lo>> \o Ascending(S \ {lo})

Valid == [status |-> "ok", conflict |-> NoId]
ValidationError(conflict) == [status |-> "validation", conflict |-> conflict]

\* The loop of _validate_time_range naming, for any overlap it finds, the
\* first row of the selection.
ScanRows_names_first(brk, ids, i, start_minutes, end_minutes) ==
    LET hits == {j \in i..Len(ids) :
                    ranges_overlap(start_minutes, end_minutes,
                                   time_to_minutes(brk[ids[j]].start_time),
                                   time_to_minutes(brk[ids[j]].end_time))}
    IN IF hits = {} THEN Valid ELSE ValidationError(ids[1])

\* The loop of _validate_time_range over the selected rows, from the i-th on.
RECURSIVE ScanRows(_, _, _, _, _)
ScanRows(brk, ids, i, start_minutes, end_minutes) ==
    IF i > Len(ids) THEN Valid
    ELSE LET row == brk[ids[i]]
             existing_start == time_to_minutes(row.start_time)
             existing_end == time_to_minutes(row.end_time)
         IN IF existing_start = Invalid \/ existing_end = Invalid
               THEN ValidationError(NoId)
            ELSE IF ranges_overlap(start_minutes, end_minutes,
                                   existing_start, existing_end)
               THEN ValidationError(ids[i])
            ELSE ScanRows(brk, ids, i + 1, start_minutes, end_minutes)

\* validate_time_range without the scan of the other breaks.
validate_time_range_no_scan(brk, start, end, exclude_id) ==
    LET start_minutes == time_to_minutes(start)
        end_minutes == time_to_minutes(end)
    IN IF start_minutes = Invalid \/ end_minutes = Invalid
          THEN ValidationError(NoId)
       ELSE IF start_minutes >= end_minutes THEN ValidationError(NoId)
       ELSE Valid

validate_time_range(brk, start, end, exclude_id) ==
    LET start_minutes == time_to_minutes(start)
        end_minutes == time_to_minutes(end)
        selected == {id \in DOMAIN brk :
                        ~brk[id].is_deleted /\ (exclude_id = NoId \/ id # exclude_id)}
    IN IF start_minutes = Invalid \/ end_minutes = Invalid
          THEN ValidationError(NoId)
       ELSE IF start_minutes >= end_minutes THEN ValidationError(NoId)
       ELSE ScanRows(brk, Ascending(selected), 1, start_minutes, end_minutes)

\* AUTOINCREMENT: one more than the largest id the table has ever held; no
\* row is ever removed, so that is the largest id in the table.
NextRowId(brk) == MaxOf(DOMAIN brk \cup {0}) + 1

\* Returns the table after the insert and the id of the row.
insert_break(brk, start_time, end_time, description, break_id) ==
    IF break_id = NoId
       THEN LET id == NextRowId(brk)
            IN [breaks |-> [k \in DOMAIN brk \cup {id} |->
                               IF k = id
                                  THEN Row(start_time, end_time, description, FALSE)
                                  ELSE brk[k]],
                id |-> id]
       ELSE \* INSERT ... ON CONFLICT(id) DO UPDATE
            [breaks |-> [k \in DOMAIN brk \cup {break_id} |->
                            IF k = break_id
                               THEN Row(start_time, end_time, description, FALSE)
                               ELSE brk[k]],
             id |-> break_id]

\* insert_revision keeping one revision per break: a later change of a break
\* overwrites the revision the break already has.
insert_revision_replace(revs, now, break_id, start_time, end_time, description, change_type, changed_by) ==
    LET old == {i \in 1..Len(revs) : revs[i].break_id = break_id}
        new == [id |-> Len(revs) + 1, break_id |-> break_id,
                start_time |-> start_time, end_time |-> end_time,
                description |-> description, change_type |-> change_type,
                changed_by |-> changed_by, changed_at |-> now]
    IN IF old = {} THEN Append(revs, new)
       ELSE [revs EXCEPT ![MaxOf(old)] = [new EXCEPT !.id = MaxOf(old)]]

\* insert_revision leaving changed_by to the column's default.
insert_revision_default_actor(revs, now, break_id, start_time, end_time, description, change_type, changed_by) ==
    Append(revs, [id |-> Len(revs) + 1, break_id |-> break_id,
                  start_time |-> start_time, end_time |-> end_time,
                  description |-> description, change_type |-> change_type,
                  changed_by |-> "", changed_at |-> now])

insert_revision(revs, now, break_id, start_time, end_time, description, change_type, changed_by) ==
    Append(revs, [id |-> Len(revs) + 1,
                  break_id |-> break_id,
                  start_time |-> start_time,
                  end_time |-> end_time,
                  description |-> description,
                  change_type |-> change_type,
                  changed_by |-> changed_by,
                  changed_at |-> now])

----------------------------------------------------------------------------
(* The operations of BreakStore, each as the function from the tables before
   the call to the tables after it and what the caller gets.  A call that
   raises leaves _get_conn without commit: the connection is closed and the
   tables are those before the call. *)

\* What a call gives its caller: status is "ok" for a return, "validation"
\* for BreakValidationError, "notfound" for BreakNotFoundError and "error"
\* for any other exception; id is the id of the break returned, conflict the
\* break id an overlap message names, rows the ids of a returned list in its
\* order, count the number of entries a seed inserted.
Res(op, status, id, conflict, count, rows) ==
    [op |-> op, status |-> status, id |-> id, conflict |-> conflict,
     count |-> count, rows |-> rows]

\* _get_conn: commit on a clean exit, close without commit otherwise.
Outcome(brk, revs, tx_breaks, tx_revisions, res) ==
    IF res.status = "ok"
       THEN [breaks |-> tx_breaks, revisions |-> tx_revisions, res |-> res]
       ELSE [breaks |-> brk, revisions |-> revs, res |-> res]

create_break(brk, revs, now, start, end, description, changed_by) ==
    LET v == validate_time_range(brk, start, end, NoId)
        ins == insert_break(brk, start, end, description, NoId)
        revs2 == insert_revision(revs, now, ins.id, start, end, description, "create", changed_by)
    IN IF v.status # "ok"
          THEN Outcome(brk, revs, brk, revs,
                       Res("create", "validation", NoId, v.conflict, 0, <<>>))
          ELSE Outcome(brk, revs, ins.breaks, revs2,
                       Res("create", "ok", ins.id, NoId, 0, <<>>))

\* update_break writing the row before it validates, on a connection that
\* commits each statement.
update_break_write_first(brk, revs, now, break_id, start, end, description, changed_by) ==
    LET brk2 == [brk EXCEPT ![break_id] =
                    Row(start, end, description, brk[break_id].is_deleted)]
        v == validate_time_range(brk2, start, end, break_id)
        revs2 == insert_revision(revs, now, break_id, start, end, description, "update", changed_by)
    IN IF break_id \notin DOMAIN brk \/ brk[break_id].is_deleted
          THEN [breaks |-> brk, revisions |-> revs,
                res |-> Res("update", "notfound", NoId, NoId, 0, <<>>)]
       ELSE IF v.status # "ok"
          THEN [breaks |-> brk2, revisions |-> revs,
                res |-> Res("update", "validation", NoId, v.conflict, 0, <<>>)]
       ELSE [breaks |-> brk2, revisions |-> revs2,
             res |-> Res("update", "ok", break_id, NoId, 0, <<>>)]

update_break(brk, revs, now, break_id, start, end, description, changed_by) ==
    LET v == validate_time_range(brk, start, end, break_id)
        brk2 == [brk EXCEPT ![break_id] =
                    Row(start, end, description, brk[break_id].is_deleted)]
        revs2 == insert_revision(revs, now, break_id, start, end, description, "update", changed_by)
    IN IF break_id \notin DOMAIN brk \/ brk[break_id].is_deleted
          THEN Outcome(brk, revs, brk, revs,
                       Res("update", "notfound", NoId, NoId, 0, <<>>))
       ELSE IF v.status # "ok"
          THEN Outcome(brk, revs, brk, revs,
                       Res("update", "validation", NoId, v.conflict, 0, <<>>))
       ELSE Outcome(brk, revs, brk2, revs2,
                    Res("update", "ok", break_id, NoId, 0, <<>>))

\* delete_break writing its revision without the values of the row.
delete_break_blank_revision(brk, revs, now, break_id, changed_by) ==
    LET brk2 == [brk EXCEPT ![break_id].is_deleted = TRUE]
        revs2 == insert_revision(revs, now, break_id, None, None, "", "delete", changed_by)
    IN IF break_id \notin DOMAIN brk \/ brk[break_id].is_deleted
          THEN Outcome(brk, revs, brk, revs,
                       Res("delete", "notfound", NoId, NoId, 0, <<>>))
          ELSE Outcome(brk, revs, brk2, revs2,
                       Res("delete", "ok", break_id, NoId, 0, <<>>))

\* delete_break selecting the row by its id alone, deleted or not.
delete_break_any_row(brk, revs, now, break_id, changed_by) ==
    LET existing == brk[break_id]
        brk2 == [brk EXCEPT ![break_id].is_deleted = TRUE]
        revs2 == insert_revision(revs, now, break_id, existing.start_time, existing.end_time, existing.description, "delete", changed_by)
    IN IF break_id \notin DOMAIN brk
          THEN Outcome(brk, revs, brk, revs,
                       Res("delete", "notfound", NoId, NoId, 0, <<>>))
          ELSE Outcome(brk, revs, brk2, revs2,
                       Res("delete", "ok", break_id, NoId, 0, <<>>))

delete_break(brk, revs, now, break_id, changed_by) ==
    LET existing == brk[break_id]
        brk2 == [brk EXCEPT ![break_id].is_deleted = TRUE]
        revs2 == insert_revision(revs, now, break_id, existing.start_time, existing.end_time, existing.description, "delete", changed_by)
    IN IF break_id \notin DOMAIN brk \/ brk[break_id].is_deleted
          THEN Outcome(brk, revs, brk, revs,
                       Res("delete", "notfound", NoId, NoId, 0, <<>>))
          ELSE Outcome(brk, revs, brk2, revs2,
                       Res("delete", "ok", break_id, NoId, 0, <<>>))

\* The UPDATE of restore_revision without the description.
RestoreRow_keeps_description(brk, break_id, revision) ==
    [k \in DOMAIN brk |->
        IF k = break_id
           THEN Row(revision.start_time, revision.end_time, brk[k].description, FALSE)
           ELSE brk[k]]

\* The UPDATE of restore_revision without is_deleted = 0.
RestoreRow_keeps_deleted(brk, break_id, revision) ==
    [k \in DOMAIN brk |->
        IF k = break_id
           THEN Row(revision.start_time, revision.end_time, revision.description,
                    brk[k].is_deleted)
           ELSE brk[k]]

\* The UPDATE of restore_revision; it changes no row when there is none
\* with this id.
RestoreRow(brk, break_id, revision) ==
    [k \in DOMAIN brk |->
        IF k = break_id
           THEN Row(revision.start_time, revision.end_time, revision.description, FALSE)
           ELSE brk[k]]

restore_revision(brk, revs, now, revision_id, changed_by) ==
    LET revision == revs[revision_id]
        break_id == revision.break_id
        v == validate_time_range(brk, revision.start_time, revision.end_time, break_id)
        brk2 == RestoreRow(brk, break_id, revision)
        revs2 == insert_revision(revs, now, break_id, revision.start_time, revision.end_time, revision.description, "restore", changed_by)
    IN IF revision_id \notin 1..Len(revs)
          THEN Outcome(brk, revs, brk, revs,
                       Res("restore", "notfound", NoId, NoId, 0, <<>>))
       ELSE IF break_id = NoId
          THEN Outcome(brk, revs, brk, revs,
                       Res("restore", "notfound", NoId, NoId, 0, <<>>))
       ELSE IF v.status # "ok"
          THEN Outcome(brk, revs, brk, revs,
                       Res("restore", "validation", NoId, v.conflict, 0, <<>>))
       ELSE IF break_id \notin DOMAIN brk
          THEN \* the final SELECT finds no row and dict(None) raises TypeError
               Outcome(brk, revs, brk2, revs2,
                       Res("restore", "error", NoId, NoId, 0, <<>>))
       ELSE Outcome(brk, revs, brk2, revs2,
                    Res("restore", "ok", break_id, NoId, 0, <<>>))

\* One pass of the loop of seed_from_json, from the i-th entry on; acc holds
\* the tables of the open transaction and the number of entries inserted.
RECURSIVE SeedLoop(_, _, _, _, _)
SeedLoop(acc, now, raw_breaks, i, changed_by) ==
    IF i > Len(raw_breaks) THEN acc
    ELSE LET item == raw_breaks[i]
             ins == insert_break(acc.breaks, item.start, item.end, item.description, item.id)
             revs2 == insert_revision(acc.revisions, now, ins.id, item.start, item.end, item.description, "seed", changed_by)
         IN IF item.start = None \/ item.end = None
               THEN SeedLoop(acc, now, raw_breaks, i + 1, changed_by)
               ELSE SeedLoop([breaks |-> ins.breaks, revisions |-> revs2,
                              count |-> acc.count + 1],
                             now, raw_breaks, i + 1, changed_by)

\* The loop reaches an entry whose INSERT raises; the exception leaves
\* seed_from_json and _get_conn without commit.
SeedAborts(raw_breaks) ==
    \E i \in 1..Len(raw_breaks) :
        /\ raw_breaks[i].start # None
        /\ raw_breaks[i].end # None
        /\ raw_breaks[i].id = BadId

\* seed_from_json without the count of the active breaks.
seed_from_json_unguarded(brk, revs, now, source, changed_by) ==
    LET done == SeedLoop([breaks |-> brk, revisions |-> revs, count |-> 0],
                         now, source.breaks, 1, changed_by)
    IN IF ~source.exists
          THEN Outcome(brk, revs, brk, revs, Res("seed", "ok", NoId, NoId, 0, <<>>))
       ELSE IF SeedAborts(source.breaks)
          THEN Outcome(brk, revs, brk, revs, Res("seed", "error", NoId, NoId, 0, <<>>))
       ELSE Outcome(brk, revs, done.breaks, done.revisions,
                    Res("seed", "ok", NoId, NoId, done.count, <<>>))

\* source.exists: whether json_path names a file; source.breaks: its "breaks".
seed_from_json(brk, revs, now, source, changed_by) ==
    LET done == SeedLoop([breaks |-> brk, revisions |-> revs, count |-> 0],
                         now, source.breaks, 1, changed_by)
    IN IF ~source.exists
          THEN Outcome(brk, revs, brk, revs,
                       Res("seed", "ok", NoId, NoId, 0, <<>>))
       ELSE IF Cardinality(ActiveIds(brk)) > 0
          THEN Outcome(brk, revs, brk, revs,
                       Res("seed", "ok", NoId, NoId, 0, <<>>))
       ELSE IF SeedAborts(source.breaks)
          THEN Outcome(brk, revs, brk, revs,
                       Res("seed", "error", NoId, NoId, 0, <<>>))
       ELSE Outcome(brk, revs, done.breaks, done.revisions,
                    Res("seed", "ok", NoId, NoId, done.count, <<>>))

\* The byte of a character: TEXT columns compare by memcmp (collation BINARY).
CharCode(c) == IF c = ":" THEN 58 ELSE 48 + DigitValue(c)

RECURSIVE TextLess(_, _)
TextLess(a, b) ==
    IF Len(b) = 0 THEN FALSE
    ELSE IF Len(a) = 0 THEN TRUE
    ELSE IF CharCode(a[1]) # CharCode(b[1]) THEN CharCode(a[1]) < CharCode(b[1])
    ELSE TextLess(Tail(a), Tail(b))

\* ORDER BY start_time ASC, id ASC
BreakBefore(brk, a, b) ==
    \/ TextLess(brk[a].start_time, brk[b].start_time)
    \/ brk[a].start_time = brk[b].start_time /\ a < b

RECURSIVE OrderBreaks(_, _)
OrderBreaks(brk, ids) ==
    IF ids = {} THEN <<>>
    ELSE LET first == CHOOSE a \in ids : \A b \in ids \ {a} : BreakBefore(brk, a, b)
         IN <<first>> \o OrderBreaks(brk, ids \ {first})

\* The ids of the rows list_breaks returns, in the order it returns them.
list_breaks(brk, include_deleted) ==
    OrderBreaks(brk, IF include_deleted THEN DOMAIN brk ELSE ActiveIds(brk))

\* ORDER BY changed_at DESC, id ASC
RevisionBefore_id_ascending(revs, a, b) ==
    \/ revs[a].changed_at > revs[b].changed_at
    \/ revs[a].changed_at = revs[b].changed_at /\ a < b

\* ORDER BY changed_at DESC, id DESC
RevisionBefore(revs, a, b) ==
    \/ revs[a].changed_at > revs[b].changed_at
    \/ revs[a].changed_at = revs[b].changed_at /\ a > b

RECURSIVE OrderRevisions(_, _)
OrderRevisions(revs, ids) ==
    IF ids = {} THEN <<>>
    ELSE LET first == CHOOSE a \in ids : \A b \in ids \ {a} : RevisionBefore(revs, a, b)
         IN <<first>> \o OrderRevisions(revs, ids \ {first})

\* The ids of the revisions list_revisions returns, in its order; the filter
\* is applied when break_id is truthy (neither None nor 0).
list_revisions(revs, break_id) ==
    OrderRevisions(revs,
        IF break_id # NoId /\ break_id # 0
           THEN {i \in 1..Len(revs) : revs[i].break_id = break_id}
           ELSE 1..Len(revs))

----------------------------------------------------------------------------
(* The inputs the callers draw from *)

\* The changed_by of the calls the store takes as steps, and the wider set
\* of actors the properties of a single call are evaluated for.
Actors == {"admin"}
Callers == {"admin", "alice", "unknown"}

Request(start, end, description) ==
    [start |-> start, end |-> end, description |-> description]

\* Payloads of create and update: three well-formed intervals, of which the
\* second overlaps both others and the third ends where the second starts,
\* and payloads the validation rejects.
Requests ==
    { Request(T0800, T0815, "Morning"),
      Request(T0810, T0820, "Conflict"),
      Request(T0800, T0810, "Early"),
      Request(T0815, T0800, "Backwards"),
      Request(T0800, T0800, "Empty"),
      Request(T2400, T0800, "OutOfRange"),
      Request(None, T0815, "Missing") }

Item(id, start, end, description) ==
    [id |-> id, start |-> start, end |-> end, description |-> description]

Source(raw_breaks) == [exists |-> TRUE, breaks |-> raw_breaks]

\* Bootstrap files: none; entries with and without ids; two entries that
\* overlap; an entry whose start is not before its end; an entry without a
\* start; the same id twice.
SeedSources ==
    { [exists |-> FALSE, breaks |-> <<>>],
      Source(<<Item(NoId, T0800, T0810, "Early")>>),
      Source(<<Item(1, T0800, T0815, "Morning"), Item(2, T0810, T0820, "Conflict")>>),
      Source(<<Item(2, T0815, T0800, "Backwards")>>),
      Source(<<Item(1, None, T0815, "Missing"), Item(NoId, T0810, T0820, "Conflict")>>),
      Source(<<Item(1, T0800, T0815, "Morning"), Item(1, T0810, T0820, "Conflict")>>) }

\* Payloads whose times are spelled otherwise than HH:MM: hours of one
\* digit, a minute of one digit, a minute of 60.
SpelledRequests ==
    { Request(T900, T930, "Nine"),
      Request(T1000, T1030, "Ten"),
      Request(T95, T1000, "Odd"),
      Request(T1260, T1300, "Sixty") }

\* Bootstrap files with an entry whose start is no time of the day, with an
\* entry whose id is no integer, and with the ids 0 and 1.
SpelledSources ==
    { Source(<<Item(NoId, T2400, T0800, "OutOfRange"), Item(NoId, T900, T930, "Nine")>>),
      Source(<<Item(NoId, T900, T930, "Nine"), Item(BadId, T1000, T1030, "Ten")>>),
      Source(<<Item(0, T1000, T1030, "Ten"), Item(1, T900, T930, "Nine")>>) }

BreakIdArgs == 0..(MaxBreaks + 1)
RevisionIdArgs == 0..(MaxRevs + 1)

----------------------------------------------------------------------------
(* The store as a state machine: one action per call of a BreakStore method *)

WithinBounds(out) ==
    /\ Cardinality(DOMAIN out.breaks) <= MaxBreaks
    /\ Len(out.revisions) <= MaxRevs

Apply(out) ==
    /\ WithinBounds(out)
    /\ breaks' = out.breaks
    /\ revisions' = out.revisions
    /\ result' = out.res
    /\ UNCHANGED <<clock, threadVars>>

Threads == {"t1", "t2"}
NoThread == "none"

Call(op, id, start, end, description, source, by) ==
    [op |-> op, id |-> id, start |-> start, end |-> end,
     description |-> description, source |-> source, by |-> by]

NoSource == [exists |-> FALSE, breaks |-> <<>>]
NoCall == Call("none", NoId, None, None, "", NoSource, "")

\* The local variables of a call: the outcome so far (status, id, conflict,
\* count, rows as in Res), the start, end and description read from the row
\* or the revision (snap), the index of the seed loop (i), and whether
\* another thread held the lock when the call began.
Local(status, id, conflict, count, rows, snap, i, contended) ==
    [status |-> status, id |-> id, conflict |-> conflict, count |-> count,
     rows |-> rows, snap |-> snap, i |-> i, contended |-> contended]

Snap(start_time, end_time, description) ==
    [start_time |-> start_time, end_time |-> end_time, description |-> description]

NoSnap == Snap(None, None, "")

NoLocal == Local("ok", NoId, NoId, 0, <<>>, NoSnap, 0, FALSE)

ClosedTx == [open |-> FALSE, breaks |-> <<>>, revisions |-> <<>>]

\* BreakStore(db_path) on a new database file: both tables empty, no thread
\* in a call.
Init ==
    /\ breaks = <<>>
    /\ revisions = <<>>
    /\ clock = 0
    /\ result = Res("init", "ok", NoId, NoId, 0, <<>>)
    /\ lock = NoThread
    /\ pc = [t \in Threads |-> "idle"]
    /\ call = [t \in Threads |-> NoCall]
    /\ local = [t \in Threads |-> NoLocal]
    /\ tx = [t \in Threads |-> ClosedTx]
    /\ serial = [breaks |-> <<>>, revisions |-> <<>>]
    /\ ncalls = 0

CallSeed ==
    \E source \in SeedSources :
        Apply(seed_from_json(breaks, revisions, clock, source, "seed"))

CallCreate ==
    \E req \in Requests, by \in Actors :
        Apply(create_break(breaks, revisions, clock, req.start, req.end, req.description, by))

CallUpdate ==
    \E id \in BreakIdArgs, req \in Requests, by \in Actors :
        Apply(update_break(breaks, revisions, clock, id, req.start, req.end, req.description, by))

CallDelete ==
    \E id \in BreakIdArgs, by \in Actors :
        Apply(delete_break(breaks, revisions, clock, id, by))

CallRestore ==
    \E rid \in RevisionIdArgs, by \in Actors :
        Apply(restore_revision(breaks, revisions, clock, rid, by))

CallListBreaks ==
    \E include_deleted \in BOOLEAN :
        /\ result' = Res("list_breaks", "ok", NoId, NoId, 0,
                         list_breaks(breaks, include_deleted))
        /\ UNCHANGED <<breaks, revisions, clock, threadVars>>

CallListRevisions ==
    \E id \in BreakIdArgs \cup {NoId} :
        /\ result' = Res("list_revisions", "ok", NoId, NoId, 0,
                         list_revisions(revisions, id))
        /\ UNCHANGED <<breaks, revisions, clock, threadVars>>

\* A second passes on the database's clock.
Tick ==
    /\ clock < MaxClock
    /\ clock' = clock + 1
    /\ UNCHANGED <<breaks, revisions, result, threadVars>>

Next ==
    \/ CallSeed
    \/ CallCreate
    \/ CallUpdate
    \/ CallDelete
    \/ CallRestore
    \/ CallListBreaks
    \/ CallListRevisions

Spec == Init /\ [][Next]_vars

\* The store used through create, update, delete, restore and the lists
\* alone, from the empty store.
NextNoSeed ==
    \/ CallCreate
    \/ CallUpdate
    \/ CallDelete
    \/ CallRestore
    \/ CallListBreaks
    \/ CallListRevisions

SpecNoSeed == Init /\ [][NextNoSeed]_vars

\* The store called with times in the spellings of SpelledRequests and
\* seeded from the files of SpelledSources.
CallSeedSpelled ==
    \E source \in SpelledSources :
        Apply(seed_from_json(breaks, revisions, clock, source, "seed"))

CallCreateSpelled ==
    \E req \in SpelledRequests, by \in Actors :
        Apply(create_break(breaks, revisions, clock, req.start, req.end, req.description, by))

CallUpdateSpelled ==
    \E id \in BreakIdArgs, req \in SpelledRequests, by \in Actors :
        Apply(update_break(breaks, revisions, clock, id, req.start, req.end, req.description, by))

NextSpellings ==
    \/ CallSeedSpelled
    \/ CallCreateSpelled
    \/ CallUpdateSpelled
    \/ CallDelete
    \/ CallRestore
    \/ CallListBreaks

SpecSpellings == Init /\ [][NextSpellings]_vars

\* _ranges_overlap called on two intervals of minutes with start < end, as
\* _validate_time_range calls it; the caller gets the arguments' answer.
CallRangesOverlap ==
    \E start_a \in 0..MaxMinute, end_a \in 0..MaxMinute, start_b \in 0..MaxMinute, end_b \in 0..MaxMinute :
        /\ start_a < end_a
        /\ start_b < end_b
        /\ result' = [op |-> "ranges_overlap",
                      args |-> <<start_a, end_a, start_b, end_b>>,
                      value |-> ranges_overlap(start_a, end_a, start_b, end_b)]
        /\ UNCHANGED <<breaks, revisions, clock, threadVars>>

NextOverlap == CallRangesOverlap

SpecOverlap == Init /\ [][NextOverlap]_vars

\* The store with time passing between the calls that write revisions and
\* the call that lists them.
NextClock ==
    \/ CallCreate
    \/ CallDelete
    \/ CallRestore
    \/ CallListRevisions
    \/ Tick

SpecClock == Init /\ [][NextClock]_vars

----------------------------------------------------------------------------
(* The store called by several threads: every method runs
   "with self._lock, self._get_conn() as conn", one statement a step.  A
   connection reads the committed tables and its own uncommitted writes;
   its writes reach the tables at commit, and are dropped when the
   connection is closed without one. *)

\* The calls the threads make: two creates whose intervals overlap, an
\* update, a delete, a restore, a seed of two entries, and the two lists.
ThreadCalls ==
    { Call("create", NoId, T0800, T0815, "Morning", NoSource, "admin"),
      Call("create", NoId, T0810, T0820, "Conflict", NoSource, "admin"),
      Call("update", 1, T0800, T0810, "Early", NoSource, "admin"),
      Call("delete", 1, None, None, "", NoSource, "admin"),
      Call("restore", 1, None, None, "", NoSource, "admin"),
      Call("seed", NoId, None, None, "",
           Source(<<Item(1, T0800, T0815, "Morning"), Item(NoId, T0810, T0820, "Conflict")>>),
           "seed"),
      Call("list_breaks", NoId, None, None, "", NoSource, ""),
      Call("list_revisions", NoId, None, None, "", NoSource, "") }

IsList(c) == c.op \in {"list_breaks", "list_revisions"}

\* What the connection of thread t reads.
View(t) ==
    IF tx[t].open
       THEN [breaks |-> tx[t].breaks, revisions |-> tx[t].revisions]
       ELSE [breaks |-> breaks, revisions |-> revisions]

\* threading.RLock: free, or held by the acquiring thread itself.
CanAcquire_unlocked(owner, t) == TRUE

CanAcquire(owner, t) == owner = NoThread \/ owner = t

\* A connection whose statements each commit at once (isolation_level None).
Stage_autocommit(t, new_breaks, new_revisions) ==
    /\ breaks' = new_breaks
    /\ revisions' = new_revisions
    /\ UNCHANGED tx

\* A write of the connection of t: sqlite3 opens a transaction before the
\* first INSERT or UPDATE and keeps the writes in it until commit.
Stage(t, new_breaks, new_revisions) ==
    /\ tx' = [tx EXCEPT ![t] = [open |-> TRUE, breaks |-> new_breaks,
                                revisions |-> new_revisions]]
    /\ UNCHANGED <<breaks, revisions>>

\* SQLite lets one connection write at a time: a first write waits while
\* another connection holds an open transaction.
NoOtherWriter(t) == \A u \in Threads \ {t} : ~tx[u].open

\* The first entry from the i-th on that has start and end, or 0.
NextItem(raw_breaks, i) ==
    LET rest == {j \in i..Len(raw_breaks) :
                    raw_breaks[j].start # None /\ raw_breaks[j].end # None}
    IN IF rest = {} THEN 0 ELSE CHOOSE j \in rest : \A k \in rest : j <= k

\* The statements of a method before its first write, on the tables v.
CheckCall(v, c) ==
    LET brk == v.breaks
        revs == v.revisions
        fail(status, conflict) ==
            [status |-> status, id |-> NoId, conflict |-> conflict, snap |-> NoSnap, i |-> 0]
        pass(id, snap, i) ==
            [status |-> "ok", id |-> id, conflict |-> NoId, snap |-> snap, i |-> i]
    IN CASE c.op = "create" ->
              LET val == validate_time_range(brk, c.start, c.end, NoId)
              IN IF val.status # "ok" THEN fail("validation", val.conflict)
                 ELSE pass(NoId, NoSnap, 0)
         [] c.op = "update" ->
              LET val == validate_time_range(brk, c.start, c.end, c.id)
              IN IF c.id \notin DOMAIN brk \/ brk[c.id].is_deleted THEN fail("notfound", NoId)
                 ELSE IF val.status # "ok" THEN fail("validation", val.conflict)
                 ELSE pass(c.id, NoSnap, 0)
         [] c.op = "delete" ->
              IF c.id \notin DOMAIN brk \/ brk[c.id].is_deleted THEN fail("notfound", NoId)
              ELSE pass(c.id, Snap(brk[c.id].start_time, brk[c.id].end_time,
                                   brk[c.id].description), 0)
         [] c.op = "restore" ->
              LET revision == revs[c.id]
                  val == validate_time_range(brk, revision.start_time,
                                             revision.end_time, revision.break_id)
              IN IF c.id \notin 1..Len(revs) THEN fail("notfound", NoId)
                 ELSE IF revision.break_id = NoId THEN fail("notfound", NoId)
                 ELSE IF val.status # "ok" THEN fail("validation", val.conflict)
                 ELSE pass(revision.break_id,
                           Snap(revision.start_time, revision.end_time,
                                revision.description), 0)
         [] OTHER ->   \* seed
              IF Cardinality(ActiveIds(brk)) > 0 THEN pass(NoId, NoSnap, 0)
              ELSE pass(NoId, NoSnap, NextItem(c.source.breaks, 1))

\* Thread t calls a method of the store.  seed_from_json returns at once
\* when the file does not exist.
Begin(t) ==
    /\ pc[t] = "idle"
    /\ ncalls < MaxCalls
    /\ \E c \in ThreadCalls :
          IF c.op = "seed" /\ ~c.source.exists
             THEN UNCHANGED <<call, pc, local>>
             ELSE /\ call' = [call EXCEPT ![t] = c]
                  /\ pc' = [pc EXCEPT ![t] = "lock"]
                  /\ local' = [local EXCEPT ![t] =
                                  Local("ok", NoId, NoId, 0, <<>>, NoSnap, 0, lock # NoThread)]
    /\ ncalls' = ncalls + 1
    /\ UNCHANGED <<storeVars, lock, tx, serial>>

\* with self._lock, self._get_conn() as conn
Acquire(t) ==
    /\ pc[t] = "lock"
    /\ CanAcquire(lock, t)
    /\ lock' = t
    /\ pc' = [pc EXCEPT ![t] = IF IsList(call[t]) THEN "read" ELSE "check"]
    /\ UNCHANGED <<storeVars, call, local, tx, serial, ncalls>>

Check(t) ==
    /\ pc[t] = "check"
    /\ LET got == CheckCall(View(t), call[t])
       IN /\ local' = [local EXCEPT ![t].status = got.status, ![t].id = got.id,
                                    ![t].conflict = got.conflict,
                                    ![t].snap = got.snap, ![t].i = got.i]
          /\ pc' = [pc EXCEPT ![t] =
                       IF got.status # "ok" THEN "release"
                       ELSE IF call[t].op = "seed" /\ got.i = 0 THEN "commit"
                       ELSE "write_break"]
    /\ UNCHANGED <<storeVars, lock, call, tx, serial, ncalls>>

\* The INSERT or UPDATE on breaks.
WriteBreak(t) ==
    /\ pc[t] = "write_break"
    /\ tx[t].open \/ NoOtherWriter(t)
    /\ LET v == View(t)
           c == call[t]
           item == c.source.breaks[local[t].i]
           ins == IF c.op = "create"
                     THEN insert_break(v.breaks, c.start, c.end, c.description, NoId)
                     ELSE insert_break(v.breaks, item.start, item.end, item.description, item.id)
           new_breaks ==
               CASE c.op \in {"create", "seed"} -> ins.breaks
                 [] c.op = "update" ->
                      [k \in DOMAIN v.breaks |->
                          IF k = c.id
                             THEN Row(c.start, c.end, c.description, v.breaks[k].is_deleted)
                             ELSE v.breaks[k]]
                 [] c.op = "delete" ->
                      [k \in DOMAIN v.breaks |->
                          IF k = c.id THEN [v.breaks[k] EXCEPT !.is_deleted = TRUE]
                          ELSE v.breaks[k]]
                 [] OTHER -> RestoreRow(v.breaks, local[t].id, local[t].snap)
       IN /\ Stage(t, new_breaks, v.revisions)
          /\ local' = [local EXCEPT ![t].id =
                          IF c.op \in {"create", "seed"} THEN ins.id ELSE local[t].id]
    /\ pc' = [pc EXCEPT ![t] = "write_revision"]
    /\ UNCHANGED <<clock, result, lock, call, serial, ncalls>>

ChangeType(c) ==
    CASE c.op = "create" -> "create"
      [] c.op = "update" -> "update"
      [] c.op = "delete" -> "delete"
      [] c.op = "restore" -> "restore"
      [] OTHER -> "seed"

\* The INSERT on break_revisions; the seed loop goes on to its next entry.
WriteRevision(t) ==
    /\ pc[t] = "write_revision"
    /\ LET v == View(t)
           c == call[t]
           item == c.source.breaks[local[t].i]
           values ==
               CASE c.op \in {"create", "update"} -> Snap(c.start, c.end, c.description)
                 [] c.op = "seed" -> Snap(item.start, item.end, item.description)
                 [] OTHER -> local[t].snap
           next == IF c.op = "seed" THEN NextItem(c.source.breaks, local[t].i + 1) ELSE 0
       IN /\ Stage(t, v.breaks,
                   insert_revision(v.revisions, clock, local[t].id, values.start_time, values.end_time, values.description, ChangeType(c), c.by))
          /\ local' = [local EXCEPT ![t].i = next,
                                    ![t].count = IF c.op = "seed" THEN @ + 1 ELSE @]
          /\ pc' = [pc EXCEPT ![t] = IF next # 0 THEN "write_break" ELSE "commit"]
    /\ UNCHANGED <<clock, result, lock, call, serial, ncalls>>

\* The SELECT of list_breaks or list_revisions.
Read(t) ==
    /\ pc[t] = "read"
    /\ local' = [local EXCEPT ![t].rows =
                    IF call[t].op = "list_breaks"
                       THEN list_breaks(View(t).breaks, FALSE)
                       ELSE list_revisions(View(t).revisions, NoId)]
    /\ pc' = [pc EXCEPT ![t] = "commit"]
    /\ UNCHANGED <<storeVars, lock, call, tx, serial, ncalls>>

\* conn.commit() on the clean exit of _get_conn.
Commit(t) ==
    /\ pc[t] = "commit"
    /\ IF tx[t].open
          THEN /\ breaks' = tx[t].breaks
               /\ revisions' = tx[t].revisions
               /\ tx' = [tx EXCEPT ![t] = ClosedTx]
          ELSE UNCHANGED <<breaks, revisions, tx>>
    /\ pc' = [pc EXCEPT ![t] = "release"]
    /\ UNCHANGED <<clock, result, lock, call, local, serial, ncalls>>

\* A statement or the commit fails with an exception that is neither
\* BreakValidationError nor BreakNotFoundError (sqlite3.Error, OSError).
Fault(t) ==
    /\ pc[t] \in {"check", "write_break", "write_revision", "read", "commit"}
    /\ local' = [local EXCEPT ![t].status = "error", ![t].id = NoId,
                              ![t].conflict = NoId, ![t].count = 0, ![t].rows = <<>>]
    /\ pc' = [pc EXCEPT ![t] = "release"]
    /\ UNCHANGED <<storeVars, lock, call, tx, serial, ncalls>>

ResultOf(t) ==
    Res(call[t].op, local[t].status,
        IF call[t].op = "seed" THEN NoId ELSE local[t].id,
        local[t].conflict, local[t].count, local[t].rows)

\* The call c run alone on the tables s.
SerialOutcome(s, c) ==
    CASE c.op = "create" ->
           create_break(s.breaks, s.revisions, clock, c.start, c.end, c.description, c.by)
      [] c.op = "update" ->
           update_break(s.breaks, s.revisions, clock, c.id, c.start, c.end, c.description, c.by)
      [] c.op = "delete" -> delete_break(s.breaks, s.revisions, clock, c.id, c.by)
      [] c.op = "restore" -> restore_revision(s.breaks, s.revisions, clock, c.id, c.by)
      [] c.op = "seed" -> seed_from_json(s.breaks, s.revisions, clock, c.source, c.by)
      [] c.op = "list_breaks" ->
           [breaks |-> s.breaks, revisions |-> s.revisions,
            res |-> Res("list_breaks", "ok", NoId, NoId, 0, list_breaks(s.breaks, FALSE))]
      [] OTHER ->
           [breaks |-> s.breaks, revisions |-> s.revisions,
            res |-> Res("list_revisions", "ok", NoId, NoId, 0,
                        list_revisions(s.revisions, NoId))]

\* The exit of a method that releases the lock and closes the connection
\* at its return only, not when it raises.
Release_on_return_only(t) ==
    /\ pc[t] = "release"
    /\ tx' = IF local[t].status = "ok" THEN [tx EXCEPT ![t] = ClosedTx] ELSE tx
    /\ lock' = IF lock = t /\ local[t].status = "ok" THEN NoThread ELSE lock
    /\ result' = ResultOf(t)
    /\ serial' = IF local[t].status = "error" THEN serial
                 ELSE LET out == SerialOutcome(serial, call[t])
                      IN [breaks |-> out.breaks, revisions |-> out.revisions]
    /\ pc' = [pc EXCEPT ![t] = "idle"]
    /\ call' = [call EXCEPT ![t] = NoCall]
    /\ local' = [local EXCEPT ![t] = NoLocal]
    /\ UNCHANGED <<breaks, revisions, clock, ncalls>>

\* The exit of the with statement: conn.close() drops what was not
\* committed, the lock is released, the caller gets the outcome.
Release(t) ==
    /\ pc[t] = "release"
    /\ tx' = [tx EXCEPT ![t] = ClosedTx]
    /\ lock' = IF lock = t THEN NoThread ELSE lock
    /\ result' = ResultOf(t)
    /\ serial' = IF local[t].status = "error" THEN serial
                 ELSE LET out == SerialOutcome(serial, call[t])
                      IN [breaks |-> out.breaks, revisions |-> out.revisions]
    /\ pc' = [pc EXCEPT ![t] = "idle"]
    /\ call' = [call EXCEPT ![t] = NoCall]
    /\ local' = [local EXCEPT ![t] = NoLocal]
    /\ UNCHANGED <<breaks, revisions, clock, ncalls>>

NextThreads ==
    \E t \in Threads :
        \/ Begin(t)
        \/ Acquire(t)
        \/ Check(t)
        \/ WriteBreak(t)
        \/ WriteRevision(t)
        \/ Read(t)
        \/ Commit(t)
        \/ Fault(t)
        \/ Release(t)

SpecThreads == Init /\ [][NextThreads]_vars

\* A statement of the method thread t is in completes or raises.
Statement(t) ==
    \/ Fault(t)
    \/ Check(t)
    \/ WriteBreak(t)
    \/ WriteRevision(t)
    \/ Read(t)
    \/ Commit(t)

\* Weak fairness of Release(t), written out: Release(t) has the guard
\* pc[t] = "release" alone and changes pc, so it is enabled exactly in the
\* states with pc[t] = "release".
ReleaseFair(t) ==
    \/ []<>(pc[t] # "release")
    \/ []<><<Release(t)>>_vars

\* Thread t calls a method while fewer than MaxFairCalls calls have begun.
BeginFair(t) == ncalls < MaxFairCalls /\ Begin(t)

NextThreadsFair ==
    \E t \in Threads :
        \/ BeginFair(t)
        \/ Acquire(t)
        \/ Check(t)
        \/ WriteBreak(t)
        \/ WriteRevision(t)
        \/ Read(t)
        \/ Commit(t)
        \/ Fault(t)
        \/ Release(t)

\* The threads under fair scheduling: a thread inside a method goes on to
\* the end of its statement and to the exit of the with statement, and a
\* thread waiting for the lock gets it when the lock is free again and
\* again.  Whether a thread calls the store, and whether a statement
\* raises, is left open.
SpecThreadsFair ==
    /\ Init
    /\ [][NextThreadsFair]_vars
    /\ \A t \in Threads :
          /\ WF_vars(Statement(t))
          /\ ReleaseFair(t)
          /\ SF_vars(Acquire(t))

----------------------------------------------------------------------------
(* Properties *)

StartMinutes(brk, id) == time_to_minutes(brk[id].start_time)
EndMinutes(brk, id) == time_to_minutes(brk[id].end_time)

\* Two rows whose [start, end) intervals, in minutes of the day, share a minute.
Overlapping(brk, a, b) ==
    ranges_overlap(StartMinutes(brk, a), EndMinutes(brk, a),
                   StartMinutes(brk, b), EndMinutes(brk, b))

NoOverlap(brk) ==
    \A a \in ActiveIds(brk), b \in ActiveIds(brk) : a # b => ~Overlapping(brk, a, b)

WellOrdered(brk) ==
    \A a \in ActiveIds(brk) :
        /\ StartMinutes(brk, a) # Invalid
        /\ EndMinutes(brk, a) # Invalid
        /\ StartMinutes(brk, a) < EndMinutes(brk, a)

\* C1: from the empty store, after any sequence of create, update, delete
\* and restore calls, successful or failing, no two active breaks have
\* overlapping [start, end) intervals in minutes of the day.
C1_NoOverlapWithoutSeed == NoOverlap(breaks)

\* A restore or an update has succeeded and left two active breaks.
C1_Witness ==
    /\ Cardinality(ActiveIds(breaks)) = 2
    /\ result.op \in {"update", "restore"}
    /\ result.status = "ok"

\* C2: in every reachable state, seeding included, every active break has
\* start < end in minutes of the day and no two active breaks overlap.
C2_ActiveBreaksValid == WellOrdered(breaks) /\ NoOverlap(breaks)

IsPrefix(a, b) ==
    /\ Len(a) <= Len(b)
    /\ \A i \in 1..Len(a) : a[i] = b[i]

\* C3: across every step of the store the revisions only grow: the count
\* never decreases and every revision keeps all its fields, its id included.
C3_RevisionsAppendOnly ==
    [][IsPrefix(revisions, revisions') /\ \A i \in 1..Len(revisions') : revisions'[i].id = i]_vars

\* Revisions of three kinds of change have been appended, the last a restore.
C3_Witness ==
    /\ Len(revisions) >= 3
    /\ revisions[Len(revisions)].change_type = "restore"
    /\ revisions[1].change_type # revisions[2].change_type

Revision(id, break_id, start_time, end_time, description, change_type, changed_by, changed_at) ==
    [id |-> id, break_id |-> break_id, start_time |-> start_time,
     end_time |-> end_time, description |-> description,
     change_type |-> change_type, changed_by |-> changed_by,
     changed_at |-> changed_at]

\* The revisions after a call are those before it plus exactly this one.
AppendsOne(out, break_id, start_time, end_time, description, change_type, changed_by) ==
    out.revisions = Append(revisions,
        Revision(Len(revisions) + 1, break_id, start_time, end_time, description,
                 change_type, changed_by, clock))

SeedInserted(source) ==
    {i \in 1..Len(source.breaks) :
        source.breaks[i].start # None /\ source.breaks[i].end # None}

\* C4: in every reachable state, a create, update, delete or restore call
\* that succeeds appends exactly one revision, for the affected break, of
\* the call's change type and with the caller's changed_by; a seed appends
\* exactly one seed revision per entry it inserts; a failing call appends none.
C4_OneRevisionPerMutation ==
    /\ \A req \in Requests, by \in Callers :
          LET out == create_break(breaks, revisions, clock, req.start, req.end, req.description, by)
          IN IF out.res.status = "ok"
                THEN AppendsOne(out, out.res.id, req.start, req.end, req.description, "create", by)
                ELSE out.revisions = revisions
    /\ \A id \in BreakIdArgs, req \in Requests, by \in Callers :
          LET out == update_break(breaks, revisions, clock, id, req.start, req.end, req.description, by)
          IN IF out.res.status = "ok"
                THEN AppendsOne(out, id, req.start, req.end, req.description, "update", by)
                ELSE out.revisions = revisions
    /\ \A id \in BreakIdArgs, by \in Callers :
          LET out == delete_break(breaks, revisions, clock, id, by)
          IN IF out.res.status = "ok"
                THEN AppendsOne(out, id, breaks[id].start_time, breaks[id].end_time,
                                breaks[id].description, "delete", by)
                ELSE out.revisions = revisions
    /\ \A rid \in RevisionIdArgs, by \in Callers :
          LET out == restore_revision(breaks, revisions, clock, rid, by)
          IN IF out.res.status = "ok"
                THEN AppendsOne(out, revisions[rid].break_id, revisions[rid].start_time,
                                revisions[rid].end_time, revisions[rid].description,
                                "restore", by)
                ELSE out.revisions = revisions
    /\ \A source \in SeedSources :
          LET out == seed_from_json(breaks, revisions, clock, source, "seed")
              n == Len(out.revisions) - Len(revisions)
          IN /\ IsPrefix(revisions, out.revisions)
             /\ n = out.res.count
             /\ n \in {0, Cardinality(SeedInserted(source))}
             /\ \A i \in (Len(revisions) + 1)..Len(out.revisions) :
                   /\ out.revisions[i].change_type = "seed"
                   /\ out.revisions[i].break_id \in DOMAIN out.breaks

\* The history holds a seed, a delete and a restore revision of one break.
C4_Witness ==
    /\ Len(revisions) = 3
    /\ revisions[1].change_type = "seed"
    /\ revisions[2].change_type = "delete"
    /\ revisions[3].change_type = "restore"
    /\ revisions[3].changed_by \in Actors
    /\ result.op = "restore" /\ result.status = "ok"

\* C5: a create, update, delete or restore call that fails with a validation
\* or a not-found error leaves the breaks and the revisions as they were.
C5_FailureChangesNothing ==
    [][(/\ result'.op \in {"create", "update", "delete", "restore"}
        /\ result'.status \in {"validation", "notfound"})
       => (breaks' = breaks /\ revisions' = revisions)]_vars

\* An update of an active break has failed validation against another one.
C5_Witness ==
    /\ result.op = "update"
    /\ result.status = "validation"
    /\ result.conflict \in ActiveIds(breaks)
    /\ Cardinality(ActiveIds(breaks)) = 2
    /\ Len(revisions) = 2

\* Some active break other than break_id overlaps the interval of the revision.
Blocked(brk, break_id, revision) ==
    \E o \in ActiveIds(brk) \ {break_id} :
        ranges_overlap(time_to_minutes(revision.start_time),
                       time_to_minutes(revision.end_time),
                       StartMinutes(brk, o), EndMinutes(brk, o))

\* C8: in every reachable state, a restore of a revision R of break B that
\* succeeds returns B, gives B the start, end and description of R, clears
\* is_deleted, changes no other break and appends one restore revision; when
\* another active break overlaps R's interval the restore fails with a
\* validation error and leaves breaks and revisions as they were.
C8_RestoreCorrect ==
    \A rid \in 1..Len(revisions), by \in Callers :
        LET R == revisions[rid]
            B == R.break_id
            out == restore_revision(breaks, revisions, clock, rid, by)
        IN /\ out.res.status = "ok" =>
                /\ out.res.id = B
                /\ out.breaks = [breaks EXCEPT ![B] =
                                    Row(R.start_time, R.end_time, R.description, FALSE)]
                /\ AppendsOne(out, B, R.start_time, R.end_time, R.description, "restore", by)
           /\ Blocked(breaks, B, R) =>
                /\ out.res.status = "validation"
                /\ out.breaks = breaks
                /\ out.revisions = revisions

\* A break was created, moved by an update to another interval and another
\* description, and restored to its create revision.
C8_Witness ==
    /\ Len(revisions) = 3
    /\ revisions[1].change_type = "create"
    /\ revisions[2].change_type = "update"
    /\ revisions[3].change_type = "restore"
    /\ revisions[2].start_time # revisions[1].start_time
    /\ revisions[2].description # revisions[1].description
    /\ result.op = "restore" /\ result.status = "ok"
    /\ breaks[result.id] = Row(revisions[1].start_time, revisions[1].end_time,
                               revisions[1].description, FALSE)

InList(id, rows) == \E i \in 1..Len(rows) : rows[i] = id

\* What C9 says of a soft-deleted break X before any restore.
DeletedIsListedOnlyWithDeleted(X) ==
    /\ ~InList(X, list_breaks(breaks, FALSE))
    /\ InList(X, list_breaks(breaks, TRUE))
    /\ breaks[X].is_deleted

AfterDelete == result.op = "delete" /\ result.status = "ok" => breaks[result.id].is_deleted

RevisionsOf(X) == {rid \in 1..Len(revisions) : revisions[rid].break_id = X}

\* No break of the store comes from a bootstrap file.
NeverSeeded == \A i \in 1..Len(revisions) : revisions[i].change_type # "seed"

\* C9 as stated, in a store that was never seeded: after delete_break(X), X
\* is absent from list_breaks() and present, deleted, in
\* list_breaks(include_deleted), and restoring any revision of X makes X
\* active again.
C9_Original ==
    NeverSeeded =>
    /\ AfterDelete
    /\ \A X \in DOMAIN breaks : breaks[X].is_deleted =>
          /\ DeletedIsListedOnlyWithDeleted(X)
          /\ \A rid \in RevisionsOf(X), by \in Callers :
                LET out == restore_revision(breaks, revisions, clock, rid, by)
                IN ~out.breaks[X].is_deleted

\* C9 as amended: ... and a restore of any revision of X, whatever its
\* change type, either fails with a validation error and leaves X deleted,
\* or succeeds and makes X active again, listed by list_breaks().
C9_DeleteRestoreRoundTrip ==
    /\ AfterDelete
    /\ \A X \in DOMAIN breaks : breaks[X].is_deleted =>
          /\ DeletedIsListedOnlyWithDeleted(X)
          /\ \A rid \in RevisionsOf(X), by \in Callers :
                LET out == restore_revision(breaks, revisions, clock, rid, by)
                IN IF out.res.status = "ok"
                      THEN /\ ~out.breaks[X].is_deleted
                           /\ InList(X, list_breaks(out.breaks, FALSE))
                      ELSE /\ out.res.status = "validation"
                           /\ out.breaks[X].is_deleted

\* A break was created and deleted, and a restore has made it active again.
C9_Witness ==
    /\ Len(revisions) = 3
    /\ revisions[1].change_type = "create"
    /\ revisions[2].change_type = "delete"
    /\ revisions[3].change_type = "restore"
    /\ revisions[2].break_id = revisions[3].break_id
    /\ result.op = "restore" /\ result.status = "ok"
    /\ ~breaks[result.id].is_deleted
    /\ InList(result.id, list_breaks(breaks, FALSE))

\* C10: in every reachable state that holds an active break, seed_from_json
\* with any source inserts and changes no break row, reactivates no deleted
\* break and leaves the revisions as they are.
C10_SeedNoOpWhenActive ==
    ActiveIds(breaks) # {} =>
        \A source \in SeedSources :
            LET out == seed_from_json(breaks, revisions, clock, source, "seed")
            IN /\ out.breaks = breaks
               /\ out.revisions = revisions
               /\ out.res.count = 0

\* A seed has filled the store, a break was then deleted, and a second seed
\* call has returned without inserting.
C10_Witness ==
    /\ result.op = "seed" /\ result.count = 0
    /\ ActiveIds(breaks) # {}
    /\ \E id \in DOMAIN breaks : breaks[id].is_deleted
    /\ revisions[1].change_type = "seed"

\* Every break row has revisions and its newest revision holds the row's
\* start, end and description and is a delete revision exactly when the row
\* is deleted; every revision belongs to a break row.  A break row written
\* without its revision, or a revision without its row change, breaks this.
Paired(brk, revs) ==
    /\ \A i \in 1..Len(revs) : revs[i].break_id \in DOMAIN brk
    /\ \A id \in DOMAIN brk :
          LET own == {i \in 1..Len(revs) : revs[i].break_id = id}
          IN /\ own # {}
             /\ revs[MaxOf(own)].start_time = brk[id].start_time
             /\ revs[MaxOf(own)].end_time = brk[id].end_time
             /\ revs[MaxOf(own)].description = brk[id].description
             /\ brk[id].is_deleted <=> revs[MaxOf(own)].change_type = "delete"

\* C6: at every moment of every interleaving, failures at any statement
\* included, the committed tables, which are what a list call and every
\* later call read, hold each break change together with its revision; so
\* do the tables a list call is about to read.
C6_AtomicVisibility ==
    /\ Paired(breaks, revisions)
    /\ \A t \in Threads :
          pc[t] = "read" => Paired(View(t).breaks, View(t).revisions)

\* A call has written its break row and not yet its revision while a list
\* call of another thread is under way.
C6_Witness ==
    \E t \in Threads, u \in Threads :
        /\ t # u
        /\ pc[t] = "write_revision"
        /\ tx[t].open
        /\ ~Paired(tx[t].breaks, tx[t].revisions)
        /\ IsList(call[u])
        /\ pc[u] = "lock"

InCall(t) == pc[t] \notin {"idle", "lock"}

\* C7: at most one thread is inside a method at a time, and whenever a call
\* is about to return, its outcome and the committed tables are those of
\* running it alone after the calls completed before it; between calls the
\* tables are those of the completed calls run one after the other.
C7_Serialized ==
    /\ \A t \in Threads, u \in Threads : t # u => ~(InCall(t) /\ InCall(u))
    /\ \A t \in Threads :
          pc[t] = "release" =>
             IF local[t].status = "error"
                THEN breaks = serial.breaks /\ revisions = serial.revisions
                ELSE LET out == SerialOutcome(serial, call[t])
                     IN /\ ResultOf(t) = out.res
                        /\ breaks = out.breaks
                        /\ revisions = out.revisions
    /\ (\A t \in Threads : ~InCall(t)) =>
          breaks = serial.breaks /\ revisions = serial.revisions

\* A create that began while another thread held the lock fails with a
\* validation error naming the break which the create that has just
\* completed inserted.
C7_Witness ==
    \E t \in Threads :
        /\ pc[t] = "release"
        /\ call[t].op = "create"
        /\ local[t].contended
        /\ local[t].status = "validation"
        /\ result.op = "create" /\ result.status = "ok"
        /\ local[t].conflict = result.id

\* The rows of a list are non-decreasing by start time of the day and, for
\* equal starts, by id.
ListedInOrder(brk, rows) ==
    \A i \in 1..Len(rows), j \in 1..Len(rows) :
        i < j =>
            \/ StartMinutes(brk, rows[i]) < StartMinutes(brk, rows[j])
            \/ /\ StartMinutes(brk, rows[i]) = StartMinutes(brk, rows[j])
               /\ rows[i] <= rows[j]

\* C11: in every reachable state of a store that was never seeded, with
\* times in every spelling validation accepts, list_breaks() and
\* list_breaks(include_deleted) return their rows non-decreasing by start
\* time of the day and, for equal starts, by id.
C11_ListBreaksOrdered ==
    NeverSeeded =>
        /\ ListedInOrder(breaks, list_breaks(breaks, FALSE))
        /\ ListedInOrder(breaks, list_breaks(breaks, TRUE))

\* The four calls of the scenario, one after the other from the tables brk
\* and revs.
Scenario(brk, revs, now) ==
    LET s1 == create_break(brk, revs, now, T0800, T0815, "Morning", "admin")
        s2 == create_break(s1.breaks, s1.revisions, now, T0810, T0820, "Conflict", "admin")
        s3 == update_break(s2.breaks, s2.revisions, now, 1, T0800, T0810, "Early", "admin")
        s4 == create_break(s3.breaks, s3.revisions, now, T0810, T0820, "Conflict", "admin")
    IN <<s1, s2, s3, s4>>

\* The request is well formed, some active break ends at the minute it
\* starts, and no active break shares a minute with it.
StartsWhereAnotherEnds(brk, req) ==
    LET s == time_to_minutes(req.start)
        e == time_to_minutes(req.end)
    IN /\ s # Invalid /\ e # Invalid /\ s < e
       /\ \E a \in ActiveIds(brk) : EndMinutes(brk, a) = s
       /\ \A a \in ActiveIds(brk) :
             EndMinutes(brk, a) <= s \/ e <= StartMinutes(brk, a)

\* C12: on the empty store create(08:00,08:15) returns id 1, create(08:10,
\* 08:20) fails validation naming break 1 and changes nothing, update(1,
\* 08:00,08:10) succeeds and create(08:10,08:20) then succeeds with id 2;
\* and in every state reached without seeding, whatever creates have failed
\* before, the ids are 1..n without a gap, a successful create returns n+1,
\* and a create of an interval that starts where an active break ends and
\* shares no minute with an active break succeeds.
C12_Scenario ==
    /\ (breaks = <<>> /\ revisions = <<>>) =>
          LET s == Scenario(breaks, revisions, clock)
          IN /\ s[1].res.status = "ok" /\ s[1].res.id = 1
             /\ s[2].res.status = "validation" /\ s[2].res.conflict = 1
             /\ s[2].breaks = s[1].breaks /\ s[2].revisions = s[1].revisions
             /\ s[3].res.status = "ok" /\ s[3].res.id = 1
             /\ s[4].res.status = "ok" /\ s[4].res.id = 2
             /\ ActiveIds(s[4].breaks) = {1, 2}
    /\ DOMAIN breaks = 1..Cardinality(DOMAIN breaks)
    /\ \A req \in Requests :
          LET out == create_break(breaks, revisions, clock, req.start, req.end, req.description, "admin")
          IN /\ out.res.status = "ok" => out.res.id = Cardinality(DOMAIN breaks) + 1
             /\ StartsWhereAnotherEnds(breaks, req) => out.res.status = "ok"

\* The store has gone through the scenario: break 1 created, a create
\* refused, break 1 moved to 08:00-08:10, break 2 created at 08:10-08:20.
C12_Witness ==
    /\ result.op = "create" /\ result.status = "ok" /\ result.id = 2
    /\ breaks = Scenario(<<>>, <<>>, 0)[4].breaks
    /\ revisions = Scenario(<<>>, <<>>, 0)[4].revisions

\* value is a string H:MM or HH:MM of digits with the hour in 0..23 and the
\* minute in 0..59.
IsHMM(value) ==
    /\ value # None
    /\ Len(value) \in {4, 5}
    /\ value[Len(value) - 2] = ":"
    /\ \A i \in 1..Len(value) : i # Len(value) - 2 => IsDigit(value[i])
    /\ ParseInt(SubSeq(value, 1, Len(value) - 3)) \in 0..23
    /\ ParseInt(SubSeq(value, Len(value) - 1, Len(value))) \in 0..59

Unchanged(out) == out.breaks = breaks /\ out.revisions = revisions

\* C13: in every reachable state, create_break with a start or an end that
\* is not H:MM or HH:MM within 00:00-23:59, and update_break of an active
\* break with such a start or end, fail with a validation error and leave
\* the breaks and the revisions as they were.
C13_MalformedTimeRejected ==
    \A req \in Requests \cup SpelledRequests, by \in Callers :
        ~(IsHMM(req.start) /\ IsHMM(req.end)) =>
            /\ LET out == create_break(breaks, revisions, clock, req.start, req.end, req.description, by)
               IN out.res.status = "validation" /\ Unchanged(out)
            /\ \A id \in ActiveIds(breaks) :
                  LET out == update_break(breaks, revisions, clock, id, req.start, req.end, req.description, by)
                  IN out.res.status = "validation" /\ Unchanged(out)

\* No row with this id, or a row that is soft-deleted.
Missing(brk, id) == id \notin DOMAIN brk \/ brk[id].is_deleted

NotFound(out) == out.res.status = "notfound" /\ Unchanged(out)

DeleteRevisions(revs, id) ==
    {i \in 1..Len(revs) : revs[i].break_id = id /\ revs[i].change_type = "delete"}

\* C14: in every reachable state, update_break and delete_break of an id
\* without a row or with a soft-deleted row, and restore_revision of a
\* revision id that does not exist, fail with a not-found error and change
\* nothing; a delete_break repeated on the break it has just deleted fails
\* with not-found and appends no second delete revision.
C14_NotFound ==
    /\ \A id \in BreakIdArgs, by \in Callers :
          Missing(breaks, id) =>
             /\ NotFound(delete_break(breaks, revisions, clock, id, by))
             /\ \A req \in Requests :
                   NotFound(update_break(breaks, revisions, clock, id, req.start, req.end, req.description, by))
    /\ \A rid \in RevisionIdArgs, by \in Callers :
          rid \notin 1..Len(revisions) =>
             NotFound(restore_revision(breaks, revisions, clock, rid, by))
    /\ \A id \in ActiveIds(breaks), by \in Callers :
          LET first == delete_break(breaks, revisions, clock, id, by)
              second == delete_break(first.breaks, first.revisions, clock, id, by)
          IN /\ first.res.status = "ok"
             /\ second.res.status = "notfound"
             /\ second.breaks = first.breaks
             /\ second.revisions = first.revisions
             /\ Cardinality(DeleteRevisions(second.revisions, id))
                   = Cardinality(DeleteRevisions(revisions, id)) + 1

\* A delete has failed with not-found in a store whose only break is
\* deleted and has one delete revision.
C14_Witness ==
    /\ result.op = "delete" /\ result.status = "notfound"
    /\ Len(revisions) = 2
    /\ revisions[2].change_type = "delete"
    /\ DOMAIN breaks = {revisions[2].break_id}
    /\ breaks[revisions[2].break_id].is_deleted

\* The stored times of the row are times of the day.
Parses(brk, id) == StartMinutes(brk, id) # Invalid /\ EndMinutes(brk, id) # Invalid

\* The interval [s, e) shares a minute with the stored interval of row id.
SharesMinutes(brk, id, s, e) ==
    Parses(brk, id) /\ ranges_overlap(s, e, StartMinutes(brk, id), EndMinutes(brk, id))

\* C15: in every reachable state, an update of an active break to a
\* well-formed interval with start < end that overlaps the break's own
\* current interval succeeds and writes the row when the interval overlaps
\* no other active break, and fails with a validation error, changing
\* nothing, when it overlaps some other active break.
C15_UpdateExcludesSelf ==
    \A id \in ActiveIds(breaks), req \in Requests \cup SpelledRequests, by \in Callers :
        LET s == time_to_minutes(req.start)
            e == time_to_minutes(req.end)
            out == update_break(breaks, revisions, clock, id, req.start, req.end, req.description, by)
        IN (IsHMM(req.start) /\ IsHMM(req.end) /\ s < e /\ SharesMinutes(breaks, id, s, e)) =>
              IF \E o \in ActiveIds(breaks) \ {id} : SharesMinutes(breaks, o, s, e)
                 THEN out.res.status = "validation" /\ Unchanged(out)
                 ELSE /\ out.res.status = "ok"
                      /\ out.breaks = [breaks EXCEPT ![id] =
                                          Row(req.start, req.end, req.description, FALSE)]

\* The ids of S in descending order.
RECURSIVE Descending(_)
Descending(S) ==
    IF S = {} THEN <<>>
    ELSE <<MaxOf(S)>> \o Descending(S \ {MaxOf(S)})

\* C16: in every reachable state, with time passing between the calls,
\* list_revisions() returns the revisions in the exact reverse of the order
\* in which they were appended, and list_revisions(break_id) those of the
\* break in the reverse of that order; changed_at never decreases along the
\* order of insertion.
C16_NewestFirst ==
    /\ list_revisions(revisions, NoId) = Descending(1..Len(revisions))
    /\ \A id \in DOMAIN breaks \ {0} :
          list_revisions(revisions, id) = Descending(RevisionsOf(id))
    /\ \A i \in 1..Len(revisions), j \in 1..Len(revisions) :
          i < j => revisions[i].changed_at <= revisions[j].changed_at

\* list_revisions has returned three revisions of which the two newest were
\* written in the same second, a second after the oldest.
C16_Witness ==
    /\ result.op = "list_revisions"
    /\ result.rows = <<3, 2, 1>>
    /\ revisions[1].changed_at < revisions[2].changed_at
    /\ revisions[2].changed_at = revisions[3].changed_at

\* C17: across every step of the store, every break id is positive, no row
\* loses or changes its id, a successful create returns an id no row had,
\* a seed leaves the rows that exist as they are and adds one row with an id
\* of its own for each entry it inserts, and update, delete and restore add
\* no row.
C17_IdsAssignedOnce ==
    [][/\ \A id \in DOMAIN breaks' : id > 0
       /\ DOMAIN breaks \subseteq DOMAIN breaks'
       /\ (result'.op = "create" /\ result'.status = "ok") =>
             /\ result'.id \notin DOMAIN breaks
             /\ DOMAIN breaks' = DOMAIN breaks \cup {result'.id}
       /\ result'.op = "seed" =>
             /\ \A id \in DOMAIN breaks : breaks'[id] = breaks[id]
             /\ Cardinality(DOMAIN breaks') = Cardinality(DOMAIN breaks) + result'.count
       /\ result'.op \in {"update", "delete", "restore"} =>
             DOMAIN breaks' = DOMAIN breaks]_vars

\* Entry i of the source is inserted: one of the revisions the seed appended
\* is a seed revision with the entry's start, end and description, of a
\* break that is active after the seed.
EntryInserted(out, item) ==
    \E r \in (Len(revisions) + 1)..Len(out.revisions) :
        /\ out.revisions[r].change_type = "seed"
        /\ out.revisions[r].start_time = item.start
        /\ out.revisions[r].end_time = item.end
        /\ out.revisions[r].description = item.description
        /\ out.revisions[r].break_id \in ActiveIds(out.breaks)

\* C18: in every reachable state without an active break, seed_from_json
\* with a source that exists returns normally, skips the entries that lack
\* start or end, and inserts every other entry as an active break with a
\* seed revision, one revision per inserted entry.
C18_SeedSkipsBadEntries ==
    ActiveIds(breaks) = {} =>
        \A source \in SeedSources \cup SpelledSources :
            source.exists =>
                LET out == seed_from_json(breaks, revisions, clock, source, "seed")
                IN /\ out.res.status = "ok"
                   /\ out.res.count = Cardinality(SeedInserted(source))
                   /\ Len(out.revisions) = Len(revisions) + Cardinality(SeedInserted(source))
                   /\ \A i \in SeedInserted(source) : EntryInserted(out, source.breaks[i])

\* The call for the interval start-end, of the break self if it has one,
\* has either not failed on an overlap or names an active break other than
\* self whose stored interval shares a minute with the interval.
NamesRealConflict(out, self, start, end) ==
    (out.res.status = "validation" /\ out.res.conflict # NoId) =>
        /\ out.res.conflict \in ActiveIds(breaks)
        /\ out.res.conflict # self
        /\ SharesMinutes(breaks, out.res.conflict, time_to_minutes(start), time_to_minutes(end))

\* The call was refused although start-end is an interval with start < end:
\* it failed on an overlap, or on the stored times of a row.
RefusedForAnother(out, self, start, end) ==
    (/\ out.res.status = "validation"
     /\ time_to_minutes(start) # Invalid
     /\ time_to_minutes(end) # Invalid
     /\ time_to_minutes(start) < time_to_minutes(end)
     /\ \A o \in ActiveIds(breaks) : Parses(breaks, o)) =>
        out.res.conflict # NoId

\* C19: in every reachable state, a create, an update or a restore that
\* fails because of an overlap names a break that is active, is not the
\* break being updated or restored, and whose stored interval overlaps the
\* requested one; and a refusal of a well-ordered interval, all stored times
\* being times of the day, names such a break.
C19_ConflictIsReal ==
    /\ \A req \in Requests, by \in Actors :
          LET out == create_break(breaks, revisions, clock, req.start, req.end, req.description, by)
          IN /\ NamesRealConflict(out, NoId, req.start, req.end)
             /\ RefusedForAnother(out, NoId, req.start, req.end)
    /\ \A id \in BreakIdArgs, req \in Requests, by \in Actors :
          LET out == update_break(breaks, revisions, clock, id, req.start, req.end, req.description, by)
          IN /\ NamesRealConflict(out, id, req.start, req.end)
             /\ RefusedForAnother(out, id, req.start, req.end)
    /\ \A rid \in 1..Len(revisions), by \in Actors :
          LET R == revisions[rid]
              out == restore_revision(breaks, revisions, clock, rid, by)
          IN /\ NamesRealConflict(out, R.break_id, R.start_time, R.end_time)
             /\ RefusedForAnother(out, R.break_id, R.start_time, R.end_time)

\* A call was refused for its overlap with break 2 while break 1, which it
\* does not overlap, is active too.
C19_Witness ==
    /\ result.status = "validation"
    /\ result.conflict = 2
    /\ ActiveIds(breaks) = {1, 2}
    /\ ~Overlapping(breaks, 1, 2)

\* Some minute lies in both half-open intervals [s1, e1) and [s2, e2).
ShareAMinute(s1, e1, s2, e2) ==
    \E m \in 0..MaxMinute : s1 <= m /\ m < e1 /\ s2 <= m /\ m < e2

\* C20: for all intervals [s1, e1) and [s2, e2) of minutes with s1 < e1 and
\* s2 < e2, the overlap test is true exactly when the intervals share a
\* minute, gives the same answer with the intervals exchanged, and is false
\* when one interval ends at the minute the other starts.
C20_OverlapIsSharedMinute ==
    result.op = "ranges_overlap" =>
        LET s1 == result.args[1]
            e1 == result.args[2]
            s2 == result.args[3]
            e2 == result.args[4]
        IN /\ result.value <=> ShareAMinute(s1, e1, s2, e2)
           /\ result.value <=> ranges_overlap(s2, e2, s1, e1)
           /\ (e1 = s2 \/ e2 = s1) => ~result.value

\* The test has answered false for an interval that ends where the other
\* starts.
C20_Witness ==
    /\ result.op = "ranges_overlap"
    /\ result.args[2] = result.args[3]
    /\ result.args[1] < result.args[2] /\ result.args[3] < result.args[4]
    /\ ~result.value

----------------------------------------------------------------------------
(* list_revisions and the break id it filters by *)

Range(s) == {s[i] : i \in DOMAIN s}

\* C21: in every reachable state list_revisions(break_id) returns exactly
\* the revisions whose break_id equals break_id, for every integer break_id,
\* 0 and the ids of no break included (then the empty list); only the call
\* without a break_id returns the revisions of all breaks.
C21_FilteredByBreakId ==
    /\ \A id \in BreakIdArgs :
          Range(list_revisions(revisions, id)) = RevisionsOf(id)
    /\ Range(list_revisions(revisions, NoId)) = 1..Len(revisions)

----------------------------------------------------------------------------
(* create_break against the stored contents of the other breaks *)

\* C22: in every reachable state, the states a seed has populated included,
\* create_break with a well-formed start and end, start < end, and an
\* interval that shares no minute with an active break succeeds: a create is
\* rejected for the stored contents of another break only when the two
\* intervals overlap.
C22_CreateSucceedsWithoutOverlap ==
    \A req \in SpelledRequests, by \in Actors :
        LET out == create_break(breaks, revisions, clock, req.start, req.end, req.description, by)
            start_minutes == time_to_minutes(req.start)
            end_minutes == time_to_minutes(req.end)
        IN (/\ IsHMM(req.start)
            /\ IsHMM(req.end)
            /\ start_minutes < end_minutes
            /\ \A id \in ActiveIds(breaks) :
                  ~SharesMinutes(breaks, id, start_minutes, end_minutes))
           => out.res.status = "ok"

----------------------------------------------------------------------------
(* The two states of a break *)

\* C23: across every step of the store, a soft-deleted break becomes active
\* only by a successful restore_revision of one of its revisions, whatever
\* create, update, delete, seed and the lists do in between, and an active
\* break becomes soft-deleted only by a successful delete_break of it.
C23_StateChangesOnlyByDeleteAndRestore ==
    [][\A id \in DOMAIN breaks \cap DOMAIN breaks' :
          /\ (breaks[id].is_deleted /\ ~breaks'[id].is_deleted) =>
                result' = Res("restore", "ok", id, NoId, 0, <<>>)
          /\ (~breaks[id].is_deleted /\ breaks'[id].is_deleted) =>
                result' = Res("delete", "ok", id, NoId, 0, <<>>)]_vars

----------------------------------------------------------------------------
(* The newest revision of a break and its row *)

\* The revisions of break id written before revision i.
EarlierOf(revs, id, i) == {j \in 1..(i - 1) : revs[j].break_id = id}

\* Revision i holds the start, end and description of the newest revision
\* its break had before it.
RecordsValuesBefore(revs, i) ==
    LET earlier == EarlierOf(revs, revs[i].break_id, i)
    IN /\ earlier # {}
       /\ revs[i].start_time = revs[MaxOf(earlier)].start_time
       /\ revs[i].end_time = revs[MaxOf(earlier)].end_time
       /\ revs[i].description = revs[MaxOf(earlier)].description

\* C24: in every reachable state every break row has a revision, the
\* revision of the break with the highest id holds the row's start, end and
\* description, the row is soft-deleted exactly when that revision is a
\* delete revision, and every delete revision holds the values its break had
\* just before the deletion.
C24_NewestRevisionMatchesRow ==
    /\ \A id \in DOMAIN breaks :
          /\ RevisionsOf(id) # {}
          /\ LET newest == revisions[MaxOf(RevisionsOf(id))]
             IN /\ newest.start_time = breaks[id].start_time
                /\ newest.end_time = breaks[id].end_time
                /\ newest.description = breaks[id].description
                /\ breaks[id].is_deleted <=> newest.change_type = "delete"
    /\ \A i \in 1..Len(revisions) :
          revisions[i].change_type = "delete" => RecordsValuesBefore(revisions, i)

\* A break created, updated to other times and then deleted: the delete
\* revision is the newest of its break and holds the times of the update,
\* not those of the create.
C24_Witness ==
    \E id \in DOMAIN breaks :
        /\ breaks[id].is_deleted
        /\ result = Res("delete", "ok", id, NoId, 0, <<>>)
        /\ Cardinality(RevisionsOf(id)) = 3
        /\ LET newest == revisions[MaxOf(RevisionsOf(id))]
               oldest == revisions[CHOOSE i \in RevisionsOf(id) : \A j \in RevisionsOf(id) : i <= j]
           IN /\ newest.change_type = "delete"
              /\ oldest.change_type = "create"
              /\ newest.start_time # oldest.start_time

----------------------------------------------------------------------------
(* The lock and the connection at the exits of a method *)

\* No thread is inside a method: the lock is free and no connection holds
\* an open transaction.
Quiescent == lock = NoThread /\ \A t \in Threads : ~tx[t].open

\* C25: every method releases the lock and closes its connection however it
\* exits, with a validation error, a not-found error, another exception or
\* an early return of seed_from_json, so whenever no thread is inside a
\* method the lock is free and no transaction is open, and under fair
\* scheduling every call a thread has begun returns.
C25_EveryCallReturns ==
    /\ []((\A t \in Threads : ~InCall(t)) => Quiescent)
    /\ \A t \in Threads : (pc[t] # "idle") ~> (pc[t] = "idle")

\* A thread waits for the lock while the other, whose call has failed with
\* a validation or a not-found error, is about to leave the method.
C25_Witness ==
    \E t \in Threads, u \in Threads :
        /\ pc[t] = "lock"
        /\ lock = u
        /\ pc[u] = "release"
        /\ local[u].status \in {"validation", "notfound"}

----------------------------------------------------------------------------
(* The HTTP gateway: one action per route of the breaks API.  A request
   carries the credentials of its Authorization header and its payload; the
   answer is the status code, with what the store gave the handler. *)

ADMIN_USERNAME == "admin"
ADMIN_PASSWORD == "admin"

\* request.authorization: absent without the header.
Authorization(username, password) ==
    [present |-> TRUE, username |-> username, password |-> password]

NoAuthorization == [present |-> FALSE, username |-> "", password |-> ""]

\* The credentials requests come with: none, the configured ones, a wrong
\* password, an empty username with the admin's password.
Credentials ==
    { NoAuthorization,
      Authorization(ADMIN_USERNAME, ADMIN_PASSWORD),
      Authorization(ADMIN_USERNAME, "wrong"),
      Authorization("", ADMIN_PASSWORD) }

\* The payloads of POST and PUT: two intervals that overlap and one whose
\* start is not before its end.
Payloads ==
    { Request(T0800, T0815, "Morning"),
      Request(T0810, T0820, "Conflict"),
      Request(T0815, T0800, "Backwards") }

\* requires_auth checking the password alone.
requires_auth_password_only(auth) ==
    auth.present /\ auth.password = ADMIN_PASSWORD

\* requires_auth: whether the wrapper calls the handler.
requires_auth(auth) ==
    /\ auth.present
    /\ auth.username = ADMIN_USERNAME
    /\ auth.password = ADMIN_PASSWORD

get_changed_by(auth) ==
    IF auth.present /\ auth.username # "" THEN auth.username ELSE "unknown"

\* The store was not called.
NotCalled == Res("none", "none", NoId, NoId, 0, <<>>)

\* What the client gets, with the request's route and credentials.
Exchange(route, auth, http, store) ==
    [op |-> route, auth |-> auth, http |-> http, store |-> store]

Answer(brk, revs, route, auth, http, store) ==
    [breaks |-> brk, revisions |-> revs, res |-> Exchange(route, auth, http, store)]

\* _auth_challenge
auth_challenge(brk, revs, route, auth) ==
    Answer(brk, revs, route, auth, 401, NotCalled)

\* A store call that raises an exception which is neither
\* BreakValidationError nor BreakNotFoundError (sqlite3.Error, OSError).
Raises(brk, revs, op) ==
    Outcome(brk, revs, brk, revs, Res(op, "error", NoId, NoId, 0, <<>>))

RouteCreate == "POST /api/breaks"
RouteUpdate == "PUT /api/breaks/<int:break_id>"
RouteDelete == "DELETE /api/breaks/<int:break_id>"
RouteRestore == "POST /api/revisions/<int:revision_id>/restore"
RouteRevisions == "GET /api/breaks/<int:break_id>/revisions"
RouteBreaks == "GET /api/breaks"

route_create_break(brk, revs, now, auth, payload, fault) ==
    LET out == IF fault THEN Raises(brk, revs, "create")
               ELSE create_break(brk, revs, now, payload.start, payload.end, payload.description, get_changed_by(auth))
        http == IF out.res.status = "validation" THEN 400
                ELSE IF out.res.status # "ok" THEN 500
                ELSE 201
    IN IF ~requires_auth(auth) THEN auth_challenge(brk, revs, RouteCreate, auth)
       ELSE Answer(out.breaks, out.revisions, RouteCreate, auth, http, out.res)

route_update_break(brk, revs, now, auth, break_id, payload, fault) ==
    LET out == IF fault THEN Raises(brk, revs, "update")
               ELSE update_break(brk, revs, now, break_id, payload.start, payload.end, payload.description, get_changed_by(auth))
        http == IF out.res.status = "validation" THEN 400
                ELSE IF out.res.status = "notfound" THEN 404
                ELSE IF out.res.status # "ok" THEN 500
                ELSE 200
    IN IF ~requires_auth(auth) THEN auth_challenge(brk, revs, RouteUpdate, auth)
       ELSE Answer(out.breaks, out.revisions, RouteUpdate, auth, http, out.res)

route_delete_break(brk, revs, now, auth, break_id, fault) ==
    LET out == IF fault THEN Raises(brk, revs, "delete")
               ELSE delete_break(brk, revs, now, break_id, get_changed_by(auth))
        http == IF out.res.status = "notfound" THEN 404
                ELSE IF out.res.status # "ok" THEN 500
                ELSE 200
    IN IF ~requires_auth(auth) THEN auth_challenge(brk, revs, RouteDelete, auth)
       ELSE Answer(out.breaks, out.revisions, RouteDelete, auth, http, out.res)

\* restore_break_revision answering 200 whatever the store raises.
restore_break_revision_swallows(brk, revs, now, auth, revision_id, fault) ==
    LET out == IF fault THEN Raises(brk, revs, "restore")
               ELSE restore_revision(brk, revs, now, revision_id, get_changed_by(auth))
    IN IF ~requires_auth(auth) THEN auth_challenge(brk, revs, RouteRestore, auth)
       ELSE Answer(out.breaks, out.revisions, RouteRestore, auth, 200, out.res)

restore_break_revision(brk, revs, now, auth, revision_id, fault) ==
    LET out == IF fault THEN Raises(brk, revs, "restore")
               ELSE restore_revision(brk, revs, now, revision_id, get_changed_by(auth))
        http == IF out.res.status = "validation" THEN 400
                ELSE IF out.res.status = "notfound" THEN 404
                ELSE IF out.res.status # "ok" THEN 500
                ELSE 200
    IN IF ~requires_auth(auth) THEN auth_challenge(brk, revs, RouteRestore, auth)
       ELSE Answer(out.breaks, out.revisions, RouteRestore, auth, http, out.res)

\* The handler has no except clause: an exception of the store becomes the
\* 500 of the framework.
list_break_revisions(brk, revs, auth, break_id, fault) ==
    LET rows == Res("list_revisions", "ok", NoId, NoId, 0, list_revisions(revs, break_id))
    IN IF ~requires_auth(auth) THEN auth_challenge(brk, revs, RouteRevisions, auth)
       ELSE IF fault THEN Answer(brk, revs, RouteRevisions, auth, 500, Raises(brk, revs, "list_revisions").res)
       ELSE Answer(brk, revs, RouteRevisions, auth, 200, rows)

\* GET /api/breaks is open to every client.
route_list_breaks(brk, revs, auth, fault) ==
    LET rows == Res("list_breaks", "ok", NoId, NoId, 0, list_breaks(brk, FALSE))
    IN IF fault THEN Answer(brk, revs, RouteBreaks, auth, 500, Raises(brk, revs, "list_breaks").res)
       ELSE Answer(brk, revs, RouteBreaks, auth, 200, rows)

PostBreaks ==
    \E auth \in Credentials, payload \in Payloads, fault \in BOOLEAN :
        Apply(route_create_break(breaks, revisions, clock, auth, payload, fault))

PutBreak ==
    \E auth \in Credentials, id \in BreakIdArgs, payload \in Payloads, fault \in BOOLEAN :
        Apply(route_update_break(breaks, revisions, clock, auth, id, payload, fault))

DeleteBreak ==
    \E auth \in Credentials, id \in BreakIdArgs, fault \in BOOLEAN :
        Apply(route_delete_break(breaks, revisions, clock, auth, id, fault))

PostRestore ==
    \E auth \in Credentials, rid \in RevisionIdArgs, fault \in BOOLEAN :
        Apply(restore_break_revision(breaks, revisions, clock, auth, rid, fault))

GetRevisions ==
    \E auth \in Credentials, id \in BreakIdArgs, fault \in BOOLEAN :
        Apply(list_break_revisions(breaks, revisions, auth, id, fault))

GetBreaks ==
    \E auth \in Credentials, fault \in BOOLEAN :
        Apply(route_list_breaks(breaks, revisions, auth, fault))

\* The application serving requests.  The store is created when the module
\* is loaded and seed_from_json(SEED_PATH) returns at once, the repository
\* shipping no breaks.json: the requests start on the empty store.
NextGateway ==
    \/ PostBreaks
    \/ PutBreak
    \/ DeleteBreak
    \/ PostRestore
    \/ GetRevisions
    \/ GetBreaks

SpecGateway == Init /\ [][NextGateway]_vars

----------------------------------------------------------------------------
(* The answers of the gateway *)

ChangingRoutes == {RouteCreate, RouteUpdate, RouteDelete, RouteRestore}

\* C26: across every request, the gateway answers by the outcome of the
\* store call: 400 when create, update or restore raised a validation
\* error, 404 when update, delete or restore raised a not-found error, 500
\* when the store failed otherwise, and 201 for create or 200 for the
\* others only when the store call succeeded; a changing request answered
\* 200 or 201 has written its revision, and one answered otherwise has
\* changed nothing.
C26_StatusFollowsStore ==
    [][LET answer == result'
       IN answer.store # NotCalled =>
             /\ (answer.store.status = "validation"
                    /\ answer.op \in {RouteCreate, RouteUpdate, RouteRestore})
                   => answer.http = 400
             /\ (answer.store.status = "notfound"
                    /\ answer.op \in {RouteUpdate, RouteDelete, RouteRestore})
                   => answer.http = 404
             /\ answer.store.status = "error" => answer.http = 500
             /\ answer.http \in {200, 201} =>
                   /\ answer.store.status = "ok"
                   /\ answer.http = 201 <=> answer.op = RouteCreate
                   /\ answer.op \in ChangingRoutes =>
                         Len(revisions') = Len(revisions) + 1
             /\ answer.http \notin {200, 201} =>
                   UNCHANGED <<breaks, revisions>>]_vars

\* A restore request was answered 400: the store refused the revision's
\* times with a validation error.
C26_Witness ==
    /\ result.op = RouteRestore
    /\ result.http = 400
    /\ result.store.status = "validation"
    /\ result.store.conflict # NoId

\* C27: across every request, a create, update, delete or restore request
\* without the configured admin username and password is answered 401, the
\* store is not called and nothing changes; every request that changes the
\* breaks or the revisions carries the admin's credentials, and the
\* revisions it writes have the admin username as changed_by, never
\* "unknown".
C27_ChangesAreTheAdmins ==
    [][LET answer == result'
           admin == /\ answer.auth.present
                    /\ answer.auth.username = ADMIN_USERNAME
                    /\ answer.auth.password = ADMIN_PASSWORD
       IN /\ (answer.op \in ChangingRoutes /\ ~admin) =>
                /\ answer.http = 401
                /\ answer.store = NotCalled
                /\ UNCHANGED <<breaks, revisions>>
          /\ (breaks' # breaks \/ revisions' # revisions) =>
                /\ admin
                /\ \A i \in (Len(revisions) + 1)..Len(revisions') :
                      /\ revisions'[i].changed_by = ADMIN_USERNAME
                      /\ revisions'[i].changed_by # "unknown"]_vars

\* A delete request with the admin username and a wrong password was
\* answered 401 while an active break exists, created by the admin.
C27_Witness ==
    /\ result.op = RouteDelete
    /\ result.http = 401
    /\ result.auth = Authorization(ADMIN_USERNAME, "wrong")
    /\ ActiveIds(breaks) # {}
    /\ \A i \in 1..Len(revisions) : revisions[i].changed_by = ADMIN_USERNAME

====
